---- MODULE Spec2Model ----
(***************************************************************************)
(* gst-rtsp-launch: the startup sequence of main(), the transport-profile  *)
(* parser parseProfile(), the retransmission-time conversion and the       *)
(* session-cleanup timeout, as a state machine.                            *)
(*                                                                         *)
(* C strings are sequences of one-character strings; the byte that ends a  *)
(* string is NUL, a null pointer is NULL.  Cursors are 0-based offsets     *)
(* into the string they walk.  64-bit unsigned values are sequences of     *)
(* eight base-256 limbs, least significant first.                          *)
(***************************************************************************)
EXTENDS Integers, Sequences, FiniteSets, TLC

\* ------------------------------------------------------------ characters

NUL == "NUL"
NULL == <<"NULL">>
OOB == "OOB"

LowerCase ==
  <<"a","b","c","d","e","f","g","h","i","j","k","l","m",
    "n","o","p","q","r","s","t","u","v","w","x","y","z">>
UpperCase ==
  <<"A","B","C","D","E","F","G","H","I","J","K","L","M",
    "N","O","P","Q","R","S","T","U","V","W","X","Y","Z">>
DecDigits == <<"0","1","2","3","4","5","6","7","8","9">>

IndexOf(seq, c) == IF \E i \in DOMAIN seq : seq[i] = c
                   THEN CHOOSE i \in DOMAIN seq : seq[i] = c
                   ELSE 0

toupper(c) == IF IndexOf(LowerCase, c) # 0 THEN UpperCase[IndexOf(LowerCase, c)] ELSE c
tolower(c) == IF IndexOf(UpperCase, c) # 0 THEN LowerCase[IndexOf(UpperCase, c)] ELSE c

\* isalnum that knows letters only
isalnum_lettersOnly(c) == IndexOf(LowerCase, c) # 0 \/ IndexOf(UpperCase, c) # 0

isalnum(c) == IndexOf(LowerCase, c) # 0 \/ IndexOf(UpperCase, c) # 0 \/ IndexOf(DecDigits, c) # 0
\* the vertical tab (0x0b), written as the character itself
VT == ""

\* isspace in the C locale: space, \t, \n, \v, \f, \r
isspace(c) == c \in {" ", "\t", "\n", VT, "\f", "\r"}

\* *(s + i): the character at offset i, the terminator at offset Len(s);
\* an offset past the terminator is outside the object.
CharAt(s, i) == IF i < Len(s) THEN s[i + 1] ELSE IF i = Len(s) THEN NUL ELSE OOB

\* Digit value of c in strtoull (letters count from 10), 99 when c is no digit.
DigitVal(c) ==
  IF IndexOf(DecDigits, c) # 0 THEN IndexOf(DecDigits, c) - 1
  ELSE IF IndexOf(LowerCase, tolower(c)) # 0 THEN IndexOf(LowerCase, tolower(c)) + 9
  ELSE 99

\* strncasecmp(s + at, t, n): 0 when the first n characters agree up to case
\* (or both strings end before), nonzero otherwise.
RECURSIVE strncasecmp(_, _, _, _)
strncasecmp(s, at, t, n) ==
  IF n = 0 THEN 0
  ELSE LET c1 == tolower(CharAt(s, at))
           c2 == tolower(CharAt(t, 0))
       IN  IF c1 # c2 THEN 1
           ELSE IF c1 = NUL THEN 0
           ELSE strncasecmp(s, at + 1, Tail(t), n - 1)

\* The offsets of s that strncasecmp(s + at, t, n) examines: it stops at the
\* first difference, at the terminator, or after n characters.
RECURSIVE strncasecmpReads(_, _, _, _)
strncasecmpReads(s, at, t, n) ==
  IF n = 0 THEN {}
  ELSE LET c1 == tolower(CharAt(s, at))
           c2 == tolower(CharAt(t, 0))
       IN  IF c1 # c2 \/ c1 = NUL THEN {at}
           ELSE {at} \cup strncasecmpReads(s, at + 1, Tail(t), n - 1)

\* ------------------------------------------------------------ bit masks

GST_RTSP_PROFILE_AVP == 1
GST_RTSP_PROFILE_SAVP == 2
GST_RTSP_PROFILE_AVPF == 4
GST_RTSP_PROFILE_SAVPF == 8

\* a | b on non-negative integers
RECURSIVE BitOr(_, _)
BitOr(a, b) ==
  IF a = 0 THEN b
  ELSE IF b = 0 THEN a
  ELSE (IF a % 2 = 1 \/ b % 2 = 1 THEN 1 ELSE 0) + 2 * BitOr(a \div 2, b \div 2)

\* ------------------------------------------------------- 64-bit numbers

\* x * m + c on limb sequences of any length (no truncation)
RECURSIVE MulAdd(_, _, _)
MulAdd(x, m, c) ==
  IF x = <<>>
  THEN IF c = 0 THEN <<>> ELSE <<c % 256>> \o MulAdd(<<>>, m, c \div 256)
  ELSE LET t == x[1] * m + c
       IN  <<t % 256>> \o MulAdd(Tail(x), m, t \div 256)

RECURSIVE Trim(_)
Trim(x) == IF x # <<>> /\ x[Len(x)] = 0 THEN Trim(SubSeq(x, 1, Len(x) - 1)) ELSE x

\* the low 64 bits of x, as eight limbs
U64(x) == [i \in 1..8 |-> IF i <= Len(x) THEN x[i] ELSE 0]
Fits64(x) == Len(Trim(x)) <= 8
ULLONG_MAX == [i \in 1..8 |-> 255]
\* -x in unsigned 64-bit arithmetic
Neg64(x) == U64(MulAdd([i \in 1..8 |-> 255 - U64(x)[i]], 1, 1))
\* a small non-negative integer as a 64-bit value
ToU64(n) == U64(MulAdd(<<>>, 1, n))

GST_MSECOND == 1000000

\* ------------------------------------------------------------ parseProfile

AVP == <<"A", "V", "P">>


\* parseProfile with the feedback test written ++cursor == base
parseProfile_preincrement(s, base, result) ==
  LET cursor == IF toupper(CharAt(s, base)) = "S" THEN base + 1 ELSE base
      compared == {base} \cup strncasecmpReads(s, cursor, AVP, 3)
  IN  IF strncasecmp(s, cursor, AVP, 3) # 0
      THEN [cursor |-> cursor, result |-> result, reads |-> compared]
      ELSE IF toupper(CharAt(s, cursor + 3)) = "F"
           THEN [cursor |-> (cursor + 1) + 3,
                 result |-> BitOr(result, IF cursor + 1 = base
                                          THEN GST_RTSP_PROFILE_AVPF
                                          ELSE GST_RTSP_PROFILE_SAVPF),
                 reads |-> compared \cup {cursor + 3}]
           ELSE [cursor |-> cursor + 3,
                 result |-> BitOr(result, IF cursor = base
                                          THEN GST_RTSP_PROFILE_AVP
                                          ELSE GST_RTSP_PROFILE_SAVP),
                 reads |-> compared \cup {cursor + 3}]

\* parseProfile testing cursor[3] before the comparison with "AVP"
parseProfile_feedbackFirst(s, base, result) ==
  LET cursor == IF toupper(CharAt(s, base)) = "S" THEN base + 1 ELSE base
      feedback == toupper(CharAt(s, cursor + 3)) = "F"
      compared == {base, cursor + 3} \cup strncasecmpReads(s, cursor, AVP, 3)
  IN  IF strncasecmp(s, cursor, AVP, 3) # 0
      THEN [cursor |-> cursor, result |-> result, reads |-> compared]
      ELSE IF feedback
           THEN [cursor |-> (cursor + 1) + 3,
                 result |-> BitOr(result, IF cursor = base
                                          THEN GST_RTSP_PROFILE_AVPF
                                          ELSE GST_RTSP_PROFILE_SAVPF),
                 reads |-> compared]
           ELSE [cursor |-> cursor + 3,
                 result |-> BitOr(result, IF cursor = base
                                          THEN GST_RTSP_PROFILE_AVP
                                          ELSE GST_RTSP_PROFILE_SAVP),
                 reads |-> compared]

\* parseProfile(base, &result) on the string s: the returned cursor and the
\* value left in *result.
parseProfile(s, base, result) ==
  LET cursor == IF toupper(CharAt(s, base)) = "S" THEN base + 1 ELSE base
      compared == {base} \cup strncasecmpReads(s, cursor, AVP, 3)
  IN  IF strncasecmp(s, cursor, AVP, 3) # 0
      THEN [cursor |-> cursor, result |-> result, reads |-> compared]
      ELSE IF toupper(CharAt(s, cursor + 3)) = "F"
           THEN [cursor |-> (cursor + 1) + 3,
                 result |-> BitOr(result, IF cursor = base
                                          THEN GST_RTSP_PROFILE_AVPF
                                          ELSE GST_RTSP_PROFILE_SAVPF),
                 reads |-> compared \cup {cursor + 3}]
           ELSE [cursor |-> cursor + 3,
                 result |-> BitOr(result, IF cursor = base
                                          THEN GST_RTSP_PROFILE_AVP
                                          ELSE GST_RTSP_PROFILE_SAVP),
                 reads |-> compared \cup {cursor + 3}]

\* ------------------------------------------------------------ strtoull

\* first offset >= i whose character is not white space
RECURSIVE SkipSpace(_, _)
SkipSpace(s, i) == IF isspace(CharAt(s, i)) THEN SkipSpace(s, i + 1) ELSE i

\* first offset >= i whose character is not a digit of base b
RECURSIVE SkipDigits(_, _, _)
SkipDigits(s, i, b) == IF DigitVal(CharAt(s, i)) < b THEN SkipDigits(s, i + 1, b) ELSE i

\* the value of the digits s[from .. to-1] in base b, appended to acc
RECURSIVE Accumulate(_, _, _, _, _)
Accumulate(s, from, to, b, acc) ==
  IF from >= to THEN acc
  ELSE Accumulate(s, from + 1, to, b, MulAdd(acc, b, DigitVal(CharAt(s, from))))

\* strtoull(s, &end, 0): white space, an optional sign, then a C integer
\* literal (0x.. hexadecimal, 0.. octal, else decimal).  end = 0 when no
\* digits were converted; on overflow the value is ULLONG_MAX.
strtoull(s) ==
  LET ws    == SkipSpace(s, 0)
      neg   == CharAt(s, ws) = "-"
      p     == IF CharAt(s, ws) \in {"-", "+"} THEN ws + 1 ELSE ws
      hex   == CharAt(s, p) = "0" /\ toupper(CharAt(s, p + 1)) = "X"
      b     == IF hex THEN 16 ELSE IF CharAt(s, p) = "0" THEN 8 ELSE 10
      start == IF hex THEN p + 2 ELSE p
      stop  == SkipDigits(s, start, b)
      v     == Accumulate(s, start, stop, b, <<>>)
  IN  IF stop = start
      THEN IF hex THEN [value |-> ToU64(0), end |-> p + 1]
                  ELSE [value |-> ToU64(0), end |-> 0]
      ELSE IF ~Fits64(v) THEN [value |-> ULLONG_MAX, end |-> stop]
      ELSE [value |-> IF neg THEN Neg64(v) ELSE U64(v), end |-> stop]

\* ------------------------------------------------------------ inputs

DEFAULT_RTSP_PORT == <<"8", "5", "5", "4">>
DEFAULT_ENDPOINT == <<"v", "i", "d", "e", "o">>

\* The command line: the value given to each option (NULL: option absent),
\* the positional launch line, and whether some argument is one that
\* g_option_context_parse cannot parse at all.
PortArgs == {NULL, <<"9", "0", "0", "0">>}
EndpointArgs == {NULL, <<"c", "a", "m", "1">>}
PipelineArgs == {NULL, <<"f", "a", "k", "e", "s", "r", "c">>}
ProfileArgs == {NULL, <<>>, <<"A", "V", "P", "+", "S", "A", "V", "P">>, <<"X", "Y", "Z">>, <<"A", "V", "P", "+">>}
RetransmitArgs == {NULL, <<>>, <<"1", "5", "0">>, <<"2", "0", "0", "m", "s">>}

Argvs ==
  [unknown : BOOLEAN, port : PortArgs, endpoint : EndpointArgs,
   profiles : ProfileArgs, retransmissionTime : RetransmitArgs,
   disableRtcp : BOOLEAN, pipeline : PipelineArgs]

\* The build and run-time environment: whether the build is against
\* GStreamer >= 1.20 (GST_VERSION_MINOR >= 20) and whether
\* gst_rtsp_server_attach succeeds.
Envs == [rtcpControl : BOOLEAN, attachOk : BOOLEAN]

\* The long names of the option table of the build.
entries(e) ==
  {"port", "endpoint", "rtsp-profiles", "retransmission-time"}
    \cup (IF e.rtcpControl THEN {"disable-rtcp"} ELSE {})

\* The long names of the options on the command line.
OptionsGiven(a) ==
  (IF a.port # NULL THEN {"port"} ELSE {})
    \cup (IF a.endpoint # NULL THEN {"endpoint"} ELSE {})
    \cup (IF a.profiles # NULL THEN {"rtsp-profiles"} ELSE {})
    \cup (IF a.retransmissionTime # NULL THEN {"retransmission-time"} ELSE {})
    \cup (IF a.disableRtcp THEN {"disable-rtcp"} ELSE {})
    \cup (IF a.unknown THEN {"?"} ELSE {})

\* g_option_context_parse succeeds when every option is in the table.
g_option_context_parse(a, e) == OptionsGiven(a) \subseteq entries(e)

\* The variable that the pointer &mount+1 of the "endpoint" entry designates:
\* one past the object mount, so whichever object the build placed there.
EndpointSlots == {"port", "retransmitTime", "profiles", "other"}

\* ------------------------------------------------------------ state

VARIABLES
  pc,              \* position of main
  argv, env,       \* the inputs of the run
  port, mount, retransmitTime, profiles, disable_rtcp,   \* file-scope variables
  mask, cursor,    \* locals of the profile loop of main
  created,         \* objects main has constructed
  service,         \* the "service" property of the server
  factory,         \* the properties main has set on the media factory
  mountTable,      \* path -> factory entries added to the mount points
  attached,        \* the server is attached to the main context
  timeoutAdded,    \* the 5 s timeout source exists
  cleanups,        \* session-pool cleanups run by timeout
  due,             \* the timeout source's interval has elapsed since its last dispatch
  pool,            \* the server's session pool: [id, left] with the intervals left before expiry
  reaped,          \* ids of the sessions the cleanups have removed
  reads,           \* offsets of the profiles string the profile loop has read
  passes,          \* passes of the body of the profile loop
  stdout,          \* what g_print has written
  exitCode         \* the value main returned

vars == <<pc, argv, env, port, mount, retransmitTime, profiles, disable_rtcp,
          mask, cursor, created, service, factory, mountTable, attached,
          timeoutAdded, cleanups, due, pool, reaped, reads, passes, stdout,
          exitCode>>

MaxCleanups == 2

NewFactory ==
  [profiles |-> {}, retransmission_time |-> {}, enable_rtcp |-> {},
   launch |-> {}, shared |-> {}, do_retransmission |-> {}]

InitState(a, e) ==
  /\ pc = "start"
  /\ argv = a
  /\ env = e
  /\ port = DEFAULT_RTSP_PORT
  /\ mount = <<"/">> \o DEFAULT_ENDPOINT
  /\ retransmitTime = NULL
  /\ profiles = NULL
  /\ disable_rtcp = FALSE
  /\ mask = 0
  /\ cursor = 0
  /\ created = {}
  /\ service = {}
  /\ factory = NewFactory
  /\ mountTable = {}
  /\ attached = FALSE
  /\ timeoutAdded = FALSE
  /\ cleanups = 0
  /\ due = FALSE
  /\ pool = {}
  /\ reaped = {}
  /\ reads = {}
  /\ passes = 0
  /\ stdout = <<>>
  /\ exitCode = {}

Init == \E a \in Argvs, e \in Envs : InitState(a, e)

g_print(fmt, args) == stdout' = Append(stdout, [fmt |-> fmt, args |-> args])

return(code) == pc' = "exit" /\ exitCode' = {code}

\* ------------------------------------------------------------ main

\* The value an option variable holds after the options are parsed: its own
\* option's argument when given, and, when the endpoint entry's pointer
\* designates it, the endpoint argument or (both given) whichever came last.
Stored(old, own, name, slot) ==
  IF argv.endpoint # NULL /\ slot = name
  THEN {argv.endpoint} \cup (IF own # NULL THEN {own} ELSE {})
  ELSE IF own # NULL THEN {own} ELSE {old}

ParseOptions ==
  /\ pc = "start"
  /\ IF ~g_option_context_parse(argv, env)
     THEN /\ g_print("Launch RTSP Server -- 11/21/23 brent@mbari.org\n", <<>>)
          /\ return(-1)
          /\ UNCHANGED <<port, retransmitTime, profiles, disable_rtcp>>
     ELSE /\ g_print("Launch RTSP Server -- 11/21/23 brent@mbari.org\n", <<>>)
          /\ \E slot \in EndpointSlots :
               /\ port' \in Stored(port, argv.port, "port", slot)
               /\ retransmitTime' \in Stored(retransmitTime, argv.retransmissionTime,
                                             "retransmitTime", slot)
               /\ profiles' \in Stored(profiles, argv.profiles, "profiles", slot)
          /\ disable_rtcp' = argv.disableRtcp
          /\ pc' = "checkPipeline"
          /\ UNCHANGED exitCode
  /\ UNCHANGED <<argv, env, mount, mask, cursor, reads, passes, created, service, factory,
                 mountTable, attached, timeoutAdded, cleanups, due, pool, reaped>>


\* main without the test of argv[1]
CheckPipeline_skipped ==
  /\ pc = "checkPipeline"
  /\ pc' = "create"
  /\ UNCHANGED <<argv, env, port, mount, retransmitTime, profiles, disable_rtcp,
                 mask, cursor, reads, passes, created, service, factory, mountTable, attached,
                 timeoutAdded, cleanups, due, pool, reaped, stdout, exitCode>>

CheckPipeline ==
  /\ pc = "checkPipeline"
  /\ IF argv.pipeline = NULL
     THEN return(-1)
     ELSE pc' = "create" /\ UNCHANGED exitCode
  /\ UNCHANGED <<argv, env, port, mount, retransmitTime, profiles, disable_rtcp,
                 mask, cursor, reads, passes, created, service, factory, mountTable, attached,
                 timeoutAdded, cleanups, due, pool, reaped, stdout>>

CreateServer ==
  /\ pc = "create"
  /\ created' = {"loop", "server", "mounts", "factory"}
  /\ service' = {port}
  /\ IF profiles # NULL
     THEN mask' = 0 /\ cursor' = 0 /\ pc' = "profileLoop"
     ELSE pc' = "retransmit" /\ UNCHANGED <<mask, cursor>>
  /\ UNCHANGED <<reads, passes>>
  /\ UNCHANGED <<argv, env, port, mount, retransmitTime, profiles, disable_rtcp,
                 factory, mountTable, attached, timeoutAdded, cleanups, due, pool, reaped, stdout,
                 exitCode>>


\* the profile loop leaving with break, not return 3, on an unknown profile
ProfileLoop_breakOnUnknown ==
  /\ pc = "profileLoop"
  /\ IF CharAt(profiles, cursor) = NUL
     THEN /\ pc' = "setProfiles"
          /\ reads' = reads \cup {cursor}
          /\ UNCHANGED <<mask, cursor, passes, exitCode>>
     ELSE LET r == parseProfile(profiles, cursor, 0)
          IN  /\ passes' = passes + 1
              /\ IF r.result = 0
                 THEN /\ pc' = "setProfiles" /\ UNCHANGED exitCode
                      /\ cursor' = r.cursor
                      /\ reads' = reads \cup {cursor} \cup r.reads
                      /\ UNCHANGED mask
                 ELSE /\ mask' = BitOr(mask, r.result)
                      /\ reads' = reads \cup {cursor} \cup r.reads \cup {r.cursor}
                      /\ IF CharAt(profiles, r.cursor) = NUL
                         THEN pc' = "setProfiles" /\ cursor' = r.cursor
                              /\ UNCHANGED exitCode
                         ELSE IF isalnum(CharAt(profiles, r.cursor))
                              THEN return(3) /\ cursor' = r.cursor
                              ELSE pc' = "profileLoop" /\ cursor' = r.cursor + 1
                                   /\ UNCHANGED exitCode
  /\ UNCHANGED <<argv, env, port, mount, retransmitTime, profiles, disable_rtcp,
                 created, service, factory, mountTable, attached, timeoutAdded,
                 cleanups, due, pool, reaped, stdout>>

\* the profile loop going on with the next pass, not return 3, on an unknown profile
ProfileLoop_continueOnUnknown ==
  /\ pc = "profileLoop"
  /\ IF CharAt(profiles, cursor) = NUL
     THEN /\ pc' = "setProfiles"
          /\ reads' = reads \cup {cursor}
          /\ UNCHANGED <<mask, cursor, passes, exitCode>>
     ELSE LET r == parseProfile(profiles, cursor, 0)
          IN  /\ passes' = passes + 1
              /\ IF r.result = 0
                 THEN /\ pc' = "profileLoop" /\ UNCHANGED exitCode
                      /\ cursor' = r.cursor
                      /\ reads' = reads \cup {cursor} \cup r.reads
                      /\ UNCHANGED mask
                 ELSE /\ mask' = BitOr(mask, r.result)
                      /\ reads' = reads \cup {cursor} \cup r.reads \cup {r.cursor}
                      /\ IF CharAt(profiles, r.cursor) = NUL
                         THEN pc' = "setProfiles" /\ cursor' = r.cursor
                              /\ UNCHANGED exitCode
                         ELSE IF isalnum(CharAt(profiles, r.cursor))
                              THEN return(3) /\ cursor' = r.cursor
                              ELSE pc' = "profileLoop" /\ cursor' = r.cursor + 1
                                   /\ UNCHANGED exitCode
  /\ UNCHANGED <<argv, env, port, mount, retransmitTime, profiles, disable_rtcp,
                 created, service, factory, mountTable, attached, timeoutAdded,
                 cleanups, due, pool, reaped, stdout>>

\* the profile loop without the cursor++ that steps over the delimiter
ProfileLoop_delimiterNotSkipped ==
  /\ pc = "profileLoop"
  /\ IF CharAt(profiles, cursor) = NUL
     THEN /\ pc' = "setProfiles"
          /\ reads' = reads \cup {cursor}
          /\ UNCHANGED <<mask, cursor, passes, exitCode>>
     ELSE LET r == parseProfile(profiles, cursor, 0)
          IN  /\ passes' = passes + 1
              /\ IF r.result = 0
                 THEN /\ return(3)
                      /\ cursor' = r.cursor
                      /\ reads' = reads \cup {cursor} \cup r.reads
                      /\ UNCHANGED mask
                 ELSE /\ mask' = BitOr(mask, r.result)
                      /\ reads' = reads \cup {cursor} \cup r.reads \cup {r.cursor}
                      /\ IF CharAt(profiles, r.cursor) = NUL
                         THEN pc' = "setProfiles" /\ cursor' = r.cursor
                              /\ UNCHANGED exitCode
                         ELSE IF isalnum(CharAt(profiles, r.cursor))
                              THEN return(3) /\ cursor' = r.cursor
                              ELSE pc' = "profileLoop" /\ cursor' = r.cursor
                                   /\ UNCHANGED exitCode
  /\ UNCHANGED <<argv, env, port, mount, retransmitTime, profiles, disable_rtcp,
                 created, service, factory, mountTable, attached, timeoutAdded,
                 cleanups, due, pool, reaped, stdout>>

\* One test of the while condition and, when it holds, one pass of the body.
ProfileLoop ==
  /\ pc = "profileLoop"
  /\ IF CharAt(profiles, cursor) = NUL
     THEN /\ pc' = "setProfiles"
          /\ reads' = reads \cup {cursor}
          /\ UNCHANGED <<mask, cursor, passes, exitCode>>
     ELSE LET r == parseProfile(profiles, cursor, 0)
          IN  /\ passes' = passes + 1
              /\ IF r.result = 0
                 THEN /\ return(3)
                      /\ cursor' = r.cursor
                      /\ reads' = reads \cup {cursor} \cup r.reads
                      /\ UNCHANGED mask
                 ELSE /\ mask' = BitOr(mask, r.result)
                      /\ reads' = reads \cup {cursor} \cup r.reads \cup {r.cursor}
                      /\ IF CharAt(profiles, r.cursor) = NUL
                         THEN pc' = "setProfiles" /\ cursor' = r.cursor
                              /\ UNCHANGED exitCode
                         ELSE IF isalnum(CharAt(profiles, r.cursor))
                              THEN return(3) /\ cursor' = r.cursor
                              ELSE pc' = "profileLoop" /\ cursor' = r.cursor + 1
                                   /\ UNCHANGED exitCode
  /\ UNCHANGED <<argv, env, port, mount, retransmitTime, profiles, disable_rtcp,
                 created, service, factory, mountTable, attached, timeoutAdded,
                 cleanups, due, pool, reaped, stdout>>

SetProfiles ==
  /\ pc = "setProfiles"
  /\ factory' = [factory EXCEPT !.profiles = {mask}]
  /\ pc' = "retransmit"
  /\ UNCHANGED <<argv, env, port, mount, retransmitTime, profiles, disable_rtcp,
                 mask, cursor, reads, passes, created, service, mountTable, attached,
                 timeoutAdded, cleanups, due, pool, reaped, stdout, exitCode>>


\* the retransmission step storing the milliseconds without GST_MSECOND
Retransmission_unscaled ==
  /\ pc = "retransmit"
  /\ IF retransmitTime = NULL
     THEN pc' = "rtcp" /\ UNCHANGED <<factory, exitCode>>
     ELSE LET r == strtoull(retransmitTime)
          IN  IF CharAt(retransmitTime, r.end) # NUL \/ r.end = 0
              THEN return(4) /\ UNCHANGED factory
              ELSE /\ factory' = [factory EXCEPT !.retransmission_time = {r.value}]
                   /\ pc' = "rtcp"
                   /\ UNCHANGED exitCode
  /\ UNCHANGED <<argv, env, port, mount, retransmitTime, profiles, disable_rtcp,
                 mask, cursor, reads, passes, created, service, mountTable, attached,
                 timeoutAdded, cleanups, due, pool, reaped, stdout>>

\* the retransmission step without the test of *end
Retransmission_noTrailingCheck ==
  /\ pc = "retransmit"
  /\ IF retransmitTime = NULL
     THEN pc' = "rtcp" /\ UNCHANGED <<factory, exitCode>>
     ELSE LET r == strtoull(retransmitTime)
          IN  IF r.end = 0
              THEN return(4) /\ UNCHANGED factory
              ELSE /\ factory' = [factory EXCEPT !.retransmission_time =
                                    {U64(MulAdd(r.value, GST_MSECOND, 0))}]
                   /\ pc' = "rtcp"
                   /\ UNCHANGED exitCode
  /\ UNCHANGED <<argv, env, port, mount, retransmitTime, profiles, disable_rtcp,
                 mask, cursor, reads, passes, created, service, mountTable, attached,
                 timeoutAdded, cleanups, due, pool, reaped, stdout>>

\* the retransmission step going on after an invalid time, without return 4
Retransmission_reportOnly ==
  /\ pc = "retransmit"
  /\ IF retransmitTime = NULL
     THEN pc' = "rtcp" /\ UNCHANGED <<factory, exitCode>>
     ELSE LET r == strtoull(retransmitTime)
          IN  IF CharAt(retransmitTime, r.end) # NUL \/ r.end = 0
              THEN pc' = "rtcp" /\ UNCHANGED <<factory, exitCode>>
              ELSE /\ factory' = [factory EXCEPT !.retransmission_time =
                                    {U64(MulAdd(r.value, GST_MSECOND, 0))}]
                   /\ pc' = "rtcp"
                   /\ UNCHANGED exitCode
  /\ UNCHANGED <<argv, env, port, mount, retransmitTime, profiles, disable_rtcp,
                 mask, cursor, reads, passes, created, service, mountTable, attached,
                 timeoutAdded, cleanups, due, pool, reaped, stdout>>

Retransmission ==
  /\ pc = "retransmit"
  /\ IF retransmitTime = NULL
     THEN pc' = "rtcp" /\ UNCHANGED <<factory, exitCode>>
     ELSE LET r == strtoull(retransmitTime)
          IN  IF CharAt(retransmitTime, r.end) # NUL \/ r.end = 0
              THEN return(4) /\ UNCHANGED factory
              ELSE /\ factory' = [factory EXCEPT !.retransmission_time =
                                    {U64(MulAdd(r.value, GST_MSECOND, 0))}]
                   /\ pc' = "rtcp"
                   /\ UNCHANGED exitCode
  /\ UNCHANGED <<argv, env, port, mount, retransmitTime, profiles, disable_rtcp,
                 mask, cursor, reads, passes, created, service, mountTable, attached,
                 timeoutAdded, cleanups, due, pool, reaped, stdout>>


\* the RTCP step passing disable_rtcp itself
EnableRtcp_notNegated ==
  /\ pc = "rtcp"
  /\ IF env.rtcpControl
     THEN factory' = [factory EXCEPT !.enable_rtcp = {disable_rtcp}]
     ELSE UNCHANGED factory
  /\ pc' = "launch"
  /\ UNCHANGED <<argv, env, port, mount, retransmitTime, profiles, disable_rtcp,
                 mask, cursor, reads, passes, created, service, mountTable, attached,
                 timeoutAdded, cleanups, due, pool, reaped, stdout, exitCode>>

EnableRtcp ==
  /\ pc = "rtcp"
  /\ IF env.rtcpControl
     THEN factory' = [factory EXCEPT !.enable_rtcp = {~disable_rtcp}]
     ELSE UNCHANGED factory
  /\ pc' = "launch"
  /\ UNCHANGED <<argv, env, port, mount, retransmitTime, profiles, disable_rtcp,
                 mask, cursor, reads, passes, created, service, mountTable, attached,
                 timeoutAdded, cleanups, due, pool, reaped, stdout, exitCode>>

SetLaunch ==
  /\ pc = "launch"
  /\ factory' = [factory EXCEPT !.launch = {argv.pipeline}, !.shared = {TRUE}]
  /\ g_print("Pipeline: %s\n", <<argv.pipeline>>)
  /\ pc' = "addFactory"
  /\ UNCHANGED <<argv, env, port, mount, retransmitTime, profiles, disable_rtcp,
                 mask, cursor, reads, passes, created, service, mountTable, attached,
                 timeoutAdded, cleanups, due, pool, reaped, exitCode>>

\* main going on to the attach without adding the factory to the mount points
AddFactory_notAdded ==
  /\ pc = "addFactory"
  /\ mountTable' = mountTable
  /\ pc' = "attach"
  /\ UNCHANGED <<argv, env, port, mount, retransmitTime, profiles, disable_rtcp,
                 mask, cursor, reads, passes, created, service, factory, attached, timeoutAdded,
                 cleanups, due, pool, reaped, stdout, exitCode>>

AddFactory ==
  /\ pc = "addFactory"
  /\ mountTable' = mountTable \cup {[path |-> mount, factory |-> factory]}
  /\ pc' = "attach"
  /\ UNCHANGED <<argv, env, port, mount, retransmitTime, profiles, disable_rtcp,
                 mask, cursor, reads, passes, created, service, factory, attached, timeoutAdded,
                 cleanups, due, pool, reaped, stdout, exitCode>>


\* the attach step going on whatever gst_rtsp_server_attach returned
Attach_ignoreFailure ==
  /\ pc = "attach"
  /\ attached' = env.attachOk
  /\ pc' = "addTimeout"
  /\ UNCHANGED <<argv, env, port, mount, retransmitTime, profiles, disable_rtcp,
                 mask, cursor, reads, passes, created, service, factory, mountTable,
                 timeoutAdded, cleanups, due, pool, reaped, stdout, exitCode>>

Attach ==
  /\ pc = "attach"
  /\ IF env.attachOk
     THEN attached' = TRUE /\ pc' = "addTimeout" /\ UNCHANGED <<stdout, exitCode>>
     ELSE g_print("failed to attach the server\n", <<>>) /\ return(6)
          /\ UNCHANGED attached
  /\ UNCHANGED <<argv, env, port, mount, retransmitTime, profiles, disable_rtcp,
                 mask, cursor, reads, passes, created, service, factory, mountTable,
                 timeoutAdded, cleanups, due, pool, reaped>>

AddTimeout ==
  /\ pc = "addTimeout"
  /\ timeoutAdded' = TRUE
  /\ pc' = "ready"
  /\ UNCHANGED <<argv, env, port, mount, retransmitTime, profiles, disable_rtcp,
                 mask, cursor, reads, passes, created, service, factory, mountTable, attached,
                 cleanups, due, pool, reaped, stdout, exitCode>>

PrintReady ==
  /\ pc = "ready"
  /\ g_print("Stream ready at rtsp://127.0.0.1:%s%s\n", <<port, mount>>)
  /\ pc' = "running"
  /\ UNCHANGED <<argv, env, port, mount, retransmitTime, profiles, disable_rtcp,
                 mask, cursor, reads, passes, created, service, factory, mountTable, attached,
                 timeoutAdded, cleanups, due, pool, reaped, exitCode>>

\* ------------------------------------------------------------ callbacks

\* media_constructed: what the handler does to the retransmission flag.  The
\* g_signal_connect calls that would install it are compiled out (#if 0), so
\* no step of the program invokes it.
media_constructed(f) == [f EXCEPT !.do_retransmission = {TRUE}]

\* The session pool of the server.  A session is [id, left]: left counts the
\* 5 s intervals before the session expires, 0 once its expiry time has elapsed.
MaxSessions == 2
MaxLifetime == 2

SessionIds == 1..MaxSessions

gst_rtsp_session_is_expired(s) == s.left = 0

\* gst_rtsp_session_pool_cleanup: the pool without its expired sessions
gst_rtsp_session_pool_cleanup(p) == {s \in p : ~gst_rtsp_session_is_expired(s)}

\* timeout returning FALSE, which removes the source after its first dispatch
timeout_oneShot ==
  /\ pc = "running"
  /\ timeoutAdded
  /\ due
  /\ pool' = gst_rtsp_session_pool_cleanup(pool)
  /\ reaped' = reaped \cup {s.id : s \in pool \ pool'}
  /\ cleanups' = IF cleanups < MaxCleanups THEN cleanups + 1 ELSE cleanups
  /\ due' = FALSE
  /\ timeoutAdded' = FALSE
  /\ UNCHANGED <<pc, argv, env, port, mount, retransmitTime, profiles,
                 disable_rtcp, mask, cursor, reads, passes, created, service,
                 factory, mountTable, attached, stdout, exitCode>>

\* timeout taking and releasing the pool without the cleanup
timeout_noCleanup ==
  /\ pc = "running"
  /\ timeoutAdded
  /\ due
  /\ pool' = pool
  /\ reaped' = reaped \cup {s.id : s \in pool \ pool'}
  /\ cleanups' = IF cleanups < MaxCleanups THEN cleanups + 1 ELSE cleanups
  /\ due' = FALSE
  /\ timeoutAdded' = TRUE
  /\ UNCHANGED <<pc, argv, env, port, mount, retransmitTime, profiles,
                 disable_rtcp, mask, cursor, reads, passes, created, service,
                 factory, mountTable, attached, stdout, exitCode>>

\* timeout, dispatched by g_main_loop_run when the source is due: one cleanup
\* of the session pool; it returns TRUE, which keeps the source for the next
\* interval.
timeout ==
  /\ pc = "running"
  /\ timeoutAdded
  /\ due
  /\ pool' = gst_rtsp_session_pool_cleanup(pool)
  /\ reaped' = reaped \cup {s.id : s \in pool \ pool'}
  /\ cleanups' = IF cleanups < MaxCleanups THEN cleanups + 1 ELSE cleanups
  /\ due' = FALSE
  /\ timeoutAdded' = TRUE
  /\ UNCHANGED <<pc, argv, env, port, mount, retransmitTime, profiles,
                 disable_rtcp, mask, cursor, reads, passes, created, service,
                 factory, mountTable, attached, stdout, exitCode>>

\* One 5 s interval of the timeout source passes: the source is due, and every
\* session is one interval nearer to its expiry.
Tick ==
  /\ timeoutAdded
  /\ due' = TRUE
  /\ pool' = {[s EXCEPT !.left = IF s.left > 0 THEN s.left - 1 ELSE 0] : s \in pool}
  /\ UNCHANGED <<pc, argv, env, port, mount, retransmitTime, profiles,
                 disable_rtcp, mask, cursor, reads, passes, created, service,
                 factory, mountTable, attached, timeoutAdded, cleanups, reaped,
                 stdout, exitCode>>

\* A client opens a session (the protocol layer adds it to the pool).
SessionCreate ==
  /\ pc = "running"
  /\ \E id \in SessionIds, life \in 1..MaxLifetime :
       /\ \A s \in pool : s.id # id
       /\ pool' = pool \cup {[id |-> id, left |-> life]}
  /\ UNCHANGED <<pc, argv, env, port, mount, retransmitTime, profiles,
                 disable_rtcp, mask, cursor, reads, passes, created, service,
                 factory, mountTable, attached, timeoutAdded, cleanups, due,
                 reaped, stdout, exitCode>>

\* A client tears its session down (the protocol layer removes it).
SessionTeardown ==
  /\ pc = "running"
  /\ \E s \in pool : pool' = pool \ {s}
  /\ UNCHANGED <<pc, argv, env, port, mount, retransmitTime, profiles,
                 disable_rtcp, mask, cursor, reads, passes, created, service,
                 factory, mountTable, attached, timeoutAdded, cleanups, due,
                 reaped, stdout, exitCode>>

Next ==
  \/ ParseOptions
  \/ CheckPipeline
  \/ CreateServer
  \/ ProfileLoop
  \/ SetProfiles
  \/ Retransmission
  \/ EnableRtcp
  \/ SetLaunch
  \/ AddFactory
  \/ Attach
  \/ AddTimeout
  \/ PrintReady
  \/ Tick
  \/ timeout

Spec == Init /\ [][Next]_vars

\* ------------------------------------------------------------ input sweeps

MaxPieces == 4
MaxDurationLen == 4

\* Profile specs: every concatenation of at most MaxPieces pieces (tokens in
\* several spellings, fragments of tokens, other alphanumerics, delimiters),
\* and the specs named in the documentation.
ProfilePieces ==
  {<<"A", "V", "P">>, <<"a", "v", "p", "f">>, <<"S", "A", "V", "P">>, <<"S", "a", "V", "p", "F">>, <<"S">>, <<"A", "V">>, <<"X">>, <<"1">>, <<"+">>, <<",">>}

RECURSIVE Concatenations(_, _)
Concatenations(pieces, n) ==
  IF n = 0 THEN {<<>>}
  ELSE LET shorter == Concatenations(pieces, n - 1)
       IN  shorter \cup {s \o q : s \in shorter, q \in pieces}

ExtraProfiles ==
  {<<"a", "v", "p", "+", "s", "a", "v", "p", "f">>, <<"A", "V", "P", "+", "A", "V", "P", "F">>, <<"s", "a", "v", "p">>, <<"A", "V", "P", "A", "V", "P", "F">>, <<"X", "Y", "Z">>,
   <<"A", "V", "P", "+", "S", "A", "V", "P", "+", "A", "V", "P", "F", "+", "S", "A", "V", "P", "F">>, <<"S", "A", "V", "P", "F", ",", "a", "v", "p", ";", "A", "v", "p", "F">>, <<"A", "V", "P", "+", "A", "V", "P", "X">>, <<"a", "v", "p", "f", ",", "S", "A", "V", "P", "F", "1">>,
   <<"A", "V", "P", "+", "+", "A", "V", "P">>, <<"A", "V", "P", "+", "S", "A", "V", "P", "+">>}

ProfileSpecs == Concatenations(ProfilePieces, MaxPieces) \cup ExtraProfiles

\* Retransmission times: every string of at most MaxDurationLen characters
\* over digits, hexadecimal letters, signs, a space and a unit letter, and
\* values around the 64-bit limits.
DurationChars == {<<"0">>, <<"1">>, <<"8">>, <<"x">>, <<"f">>, <<"-">>, <<"+">>, <<" ">>, <<VT>>, <<"m">>}

ExtraDurations ==
  {<<VT, "5">>, <<" ", VT, " ", "5">>, <<" ", "\t", "\n", VT, "\f", "\r", "7">>,
   <<"2", "0", "0">>, <<"2", "0", "0", "m", "s">>, <<"0", "2", "0", "0">>, <<"0", "x", "1", "F">>, <<"-", "2", "0", "0">>,
   <<"1", "8", "4", "4", "6", "7", "4", "4", "0", "7", "3", "7", "0", "9">>, <<"1", "8", "4", "4", "6", "7", "4", "4", "0", "7", "3", "7", "1", "0">>,
   <<"1", "8", "4", "4", "6", "7", "4", "4", "0", "7", "3", "7", "0", "9", "5", "5", "1", "6", "1", "5">>, <<"1", "8", "4", "4", "6", "7", "4", "4", "0", "7", "3", "7", "0", "9", "5", "5", "1", "6", "1", "6">>,
   <<"9", "9", "9", "9", "9", "9", "9", "9", "9", "9", "9", "9", "9", "9", "9", "9", "9", "9", "9", "9">>, <<"0", "x", "f", "f", "f", "f", "f", "f", "f", "f", "f", "f", "f", "f", "f", "f", "f", "f">>}

DurationSpecs == Concatenations(DurationChars, MaxDurationLen) \cup ExtraDurations

BaseArgv ==
  [unknown |-> FALSE, port |-> NULL, endpoint |-> NULL, profiles |-> NULL,
   retransmissionTime |-> NULL, disableRtcp |-> FALSE, pipeline |-> <<"f", "a", "k", "e", "s", "r", "c">>]
BaseEnv == [rtcpControl |-> TRUE, attachOk |-> TRUE]

InitProfiles ==
  \/ Init
  \/ \E p \in ProfileSpecs : InitState([BaseArgv EXCEPT !.profiles = p], BaseEnv)

InitDurations ==
  \/ Init
  \/ \E d \in DurationSpecs :
       InitState([BaseArgv EXCEPT !.retransmissionTime = d], BaseEnv)

\* main over the profile specs, and over the retransmission times
SpecProfiles == InitProfiles /\ [][Next]_vars
SpecDurations == InitDurations /\ [][Next]_vars

\* main with clients: the steps of main and of the callbacks, and the sessions
\* the protocol layer opens and closes while the loop runs.
NextServing ==
  \/ Next
  \/ SessionCreate
  \/ SessionTeardown

ServingArgvs ==
  {[BaseArgv EXCEPT !.pipeline = l, !.profiles = p, !.retransmissionTime = d] :
     l \in PipelineArgs,
     p \in {NULL, <<"A", "V", "P", "+", "S", "A", "V", "P">>, <<"X", "Y", "Z">>},
     d \in {NULL, <<"1", "5", "0">>, <<"2", "0", "0", "m", "s">>}}

InitServing == \E a \in ServingArgvs, e \in Envs : InitState(a, e)

SpecServing == InitServing /\ [][NextServing]_vars

\* the main loop dispatches a source that is due, and time passes
FairServing == SpecServing /\ WF_vars(timeout) /\ WF_vars(Tick)


\* ------------------------------------------------------------ vocabulary of the properties

\* Where main stands relative to its steps.
ProfilesDone ==
  \/ pc \in {"retransmit", "rtcp", "launch", "addFactory", "attach",
             "addTimeout", "ready", "running"}
  \/ pc = "exit" /\ exitCode \in {{4}, {6}}
RetransmissionDone ==
  \/ pc \in {"rtcp", "launch", "addFactory", "attach", "addTimeout", "ready",
             "running"}
  \/ pc = "exit" /\ exitCode = {6}
RtcpDone ==
  \/ pc \in {"launch", "addFactory", "attach", "addTimeout", "ready", "running"}
  \/ pc = "exit" /\ exitCode = {6}
Mounted ==
  \/ pc \in {"attach", "addTimeout", "ready", "running"}
  \/ pc = "exit" /\ exitCode = {6}

AlnumChars ==
  {LowerCase[i] : i \in 1..26} \cup {UpperCase[i] : i \in 1..26}
    \cup {DecDigits[i] : i \in 1..10}

\* r spells the word whose upper-case letters are up and lower-case letters low
Spells(r, up, low) ==
  Len(r) = Len(up) /\ \A i \in 1..Len(up) : r[i] = up[i] \/ r[i] = low[i]

\* the flag of the token r spells, 0 when r is no token
TokenFlag(r) ==
  IF Spells(r, <<"A", "V", "P">>, <<"a", "v", "p">>) THEN 1
  ELSE IF Spells(r, <<"S", "A", "V", "P">>, <<"s", "a", "v", "p">>) THEN 2
  ELSE IF Spells(r, <<"A", "V", "P", "F">>, <<"a", "v", "p", "f">>) THEN 4
  ELSE IF Spells(r, <<"S", "A", "V", "P", "F">>, <<"s", "a", "v", "p", "f">>) THEN 8
  ELSE 0

\* r begins with a token
StartsWithToken(r) ==
  \/ Len(r) >= 3 /\ TokenFlag(SubSeq(r, 1, 3)) # 0
  \/ Len(r) >= 4 /\ TokenFlag(SubSeq(r, 1, 4)) # 0

\* s cut at every non-alphanumeric character: the runs between the
\* delimiters, in order (a run is empty where nothing stands between two
\* delimiters, before the first or after the last).
RECURSIVE Runs(_)
Runs(s) ==
  IF \A i \in 1..Len(s) : s[i] \in AlnumChars
  THEN <<s>>
  ELSE LET d == CHOOSE i \in 1..Len(s) :
                  s[i] \notin AlnumChars /\ \A j \in 1..(i - 1) : s[j] \in AlnumChars
       IN  <<SubSeq(s, 1, d - 1)>> \o Runs(SubSeq(s, d + 1, Len(s)))

RECURSIVE SumOf(_)
SumOf(set) == IF set = {} THEN 0
              ELSE LET x == CHOOSE y \in set : TRUE IN x + SumOf(set \ {x})

\* tokens separated by single delimiters
TokenList(s) == \A k \in 1..Len(Runs(s)) : TokenFlag(Runs(s)[k]) # 0
\* the OR of the flags of the tokens of s: each flag is one bit
OrOfFlags(s) == SumOf({TokenFlag(Runs(s)[k]) : k \in 1..Len(Runs(s))})

\* what the loop of main lets through: nothing at all, or a token list that
\* one delimiter may follow
AcceptedProfiles(s) ==
  \A k \in 1..Len(Runs(s)) :
    TokenFlag(Runs(s)[k]) # 0 \/ (k = Len(Runs(s)) /\ Runs(s)[k] = <<>>)

DecChars == {DecDigits[i] : i \in 1..10}
OctChars == {DecDigits[i] : i \in 1..8}
HexChars == DecChars \cup {LowerCase[i] : i \in 1..6} \cup {UpperCase[i] : i \in 1..6}
SpaceChars == {" ", "\t", "\n", "", "\f", "\r"}

\* the number the decimal digits of s spell
RECURSIVE DecimalValue(_)
DecimalValue(s) ==
  IF s = <<>> THEN <<>>
  ELSE MulAdd(DecimalValue(SubSeq(s, 1, Len(s) - 1)), 10,
              (CHOOSE i \in 1..10 : DecDigits[i] = s[Len(s)]) - 1)

AllDigits(s) == s # <<>> /\ \A i \in 1..Len(s) : s[i] \in DecChars
NoLeadingZero(s) == AllDigits(s) /\ (s[1] # "0" \/ Len(s) = 1)

\* s without its leading white space and without one sign after it
Unsigned(s) ==
  LET n == CHOOSE m \in 0..Len(s) :
             /\ \A i \in 1..m : s[i] \in SpaceChars
             /\ m = Len(s) \/ s[m + 1] \notin SpaceChars
      u == SubSeq(s, n + 1, Len(s))
  IN  IF u # <<>> /\ u[1] \in {"+", "-"} THEN Tail(u) ELSE u

\* s is white space, an optional sign and then one whole C integer literal
IntegerLiteral(s) ==
  LET u == Unsigned(s)
  IN  /\ u # <<>>
      /\ \/ u[1] \in DecChars \ {"0"} /\ \A i \in 1..Len(u) : u[i] \in DecChars
         \/ u[1] = "0" /\ \A i \in 2..Len(u) : u[i] \in OctChars
         \/ /\ Len(u) >= 3 /\ u[1] = "0" /\ u[2] \in {"x", "X"}
            /\ \A i \in 3..Len(u) : u[i] \in HexChars

\* The outcome the inputs of the run determine, by the first check that fails.
AllChecksPass ==
  /\ g_option_context_parse(argv, env)
  /\ argv.pipeline # NULL
  /\ profiles = NULL \/ AcceptedProfiles(profiles)
  /\ retransmitTime = NULL \/ IntegerLiteral(retransmitTime)
  /\ env.attachOk
FirstFailure ==
  IF ~g_option_context_parse(argv, env) \/ argv.pipeline = NULL THEN -1
  ELSE IF ~(profiles = NULL \/ AcceptedProfiles(profiles)) THEN 3
  ELSE IF ~(retransmitTime = NULL \/ IntegerLiteral(retransmitTime)) THEN 4
  ELSE 6

ExpectedPort == IF argv.port = NULL THEN <<"8", "5", "5", "4">> ELSE argv.port
ExpectedPath == IF argv.endpoint = NULL THEN <<"/", "v", "i", "d", "e", "o">> ELSE <<"/">> \o argv.endpoint

\* ------------------------------------------------------------ properties

\* C1: a profile spec that is a list of tokens AVP, AVPF, SAVP, SAVPF (in any
\* letter case) separated by single non-alphanumeric characters never ends
\* the run with exit code 3, and the mask main hands to the factory is the
\* OR of the flags of its tokens.
C1_TokenListGivesOrOfFlags ==
  (profiles # NULL /\ TokenList(profiles)) =>
    /\ exitCode # {3}
    /\ pc = "setProfiles" => mask = OrOfFlags(profiles)
    /\ ProfilesDone => factory.profiles = {OrOfFlags(profiles)}

C1_Witness ==
  /\ pc = "running"
  /\ profiles = <<"a", "v", "p", "+", "s", "a", "v", "p", "f">>
  /\ factory.profiles = {9}

\* C2: the mount-table entry is at "/" + the --endpoint value ("/video"
\* without the option), and the readiness message names that path after the
\* port.
C2_EndpointIsMountPath ==
  /\ Mounted => {m.path : m \in mountTable} = {ExpectedPath}
  /\ pc = "running" =>
       stdout[Len(stdout)] = [fmt |-> "Stream ready at rtsp://127.0.0.1:%s%s\n",
                              args |-> <<ExpectedPort, ExpectedPath>>]

\* C3, as claimed: every non-empty string of decimal digits, leading zeros
\* included, is accepted, and the time stored is its decimal value times
\* GST_MSECOND.
C3_EveryDigitStringIsDecimal ==
  (retransmitTime # NULL /\ AllDigits(retransmitTime)) =>
    /\ exitCode # {4}
    /\ RetransmissionDone =>
         \E v \in factory.retransmission_time :
           Trim(v) = Trim(MulAdd(DecimalValue(retransmitTime), GST_MSECOND, 0))

\* C3, amended: every non-empty string of decimal digits without a leading
\* zero ("0" itself included) whose value fits 64 bits is accepted, and the
\* time stored is its decimal value times GST_MSECOND, modulo 2^64.
C3_DecimalWithoutLeadingZero ==
  (/\ retransmitTime # NULL
   /\ NoLeadingZero(retransmitTime)
   /\ Fits64(DecimalValue(retransmitTime))) =>
    /\ exitCode # {4}
    /\ RetransmissionDone =>
         factory.retransmission_time =
           {U64(MulAdd(DecimalValue(retransmitTime), GST_MSECOND, 0))}

C3_Witness ==
  /\ pc = "running"
  /\ retransmitTime = <<"2", "0", "0">>
  /\ factory.retransmission_time = {ToU64(200000000)}

\* C4, as claimed: a retransmission time that is empty or has a character
\* other than a decimal digit anywhere is never stored, and the run that
\* reaches the conversion ends with exit code 4.
C4_AnyNonDigitIsRejected ==
  (retransmitTime # NULL /\ ~AllDigits(retransmitTime)) =>
    /\ factory.retransmission_time = {}
    /\ ~RetransmissionDone
    /\ (pc = "exit" /\ FirstFailure \notin {-1, 3}) => exitCode = {4}

\* C4, amended: a retransmission time that is not white space, an optional
\* sign and one whole C integer literal (decimal, octal after 0, hexadecimal
\* after 0x) is never stored, and the run that reaches the conversion ends
\* with exit code 4; the empty string and a string with a unit suffix are
\* such times.
C4_NonLiteralIsRejected ==
  (retransmitTime # NULL /\ ~IntegerLiteral(retransmitTime)) =>
    /\ factory.retransmission_time = {}
    /\ ~RetransmissionDone
    /\ (pc = "exit" /\ FirstFailure \notin {-1, 3}) => exitCode = {4}

C4_Witness ==
  /\ pc = "exit"
  /\ exitCode = {4}
  /\ retransmitTime = <<"2", "0", "0", "m", "s">>
  /\ factory.retransmission_time = {}

\* C5: a run is in Running only if the options parse, the launch line is
\* there, the profile spec and the retransmission time (when given) are
\* accepted and the attach succeeds; it has ended only if one of them fails,
\* and then with the code of the first that fails (-1, -1, 3, 4, 6), never
\* 0; and no step leads out of Running.
C5_RunningIffAllChecksPass ==
  /\ pc = "running" => AllChecksPass
  /\ pc = "exit" => ~AllChecksPass /\ exitCode = {FirstFailure}
  /\ exitCode \in {{}, {-1}, {3}, {4}, {6}}
  /\ pc = "running" => ~ENABLED (Next /\ pc' # "running")

C5_Witness ==
  /\ pc = "running"
  /\ profiles # NULL
  /\ retransmitTime # NULL
  /\ attached
  /\ cleanups > 0

\* C6: without the launch line the run ends with exit code -1 and nothing
\* else, whatever the options are, and no loop, server, mount table or
\* factory is ever created.
C6_NoPipelineExitsFirst ==
  (argv.pipeline = NULL) =>
    /\ pc \in {"start", "checkPipeline", "exit"}
    /\ pc = "exit" => exitCode = {-1}
    /\ created = {} /\ service = {} /\ mountTable = {}
    /\ factory = NewFactory

C6_Witness ==
  /\ pc = "exit"
  /\ exitCode = {-1}
  /\ argv.pipeline = NULL
  /\ profiles = <<"X", "Y", "Z">>
  /\ retransmitTime = <<"2", "0", "0", "m", "s">>

\* C7: a profile spec in which, at the start or after a delimiter, a token is
\* followed at once by a further alphanumeric character is never applied to
\* the factory, and the run that reaches the profile loop ends with exit
\* code 3.
C7_TokenThenAlnumFails ==
  (/\ profiles # NULL
   /\ \E k \in 1..Len(Runs(profiles)) :
        StartsWithToken(Runs(profiles)[k]) /\ TokenFlag(Runs(profiles)[k]) = 0) =>
    /\ factory.profiles = {}
    /\ pc # "setProfiles" /\ ~ProfilesDone
    /\ pc = "exit" => exitCode = (IF argv.pipeline = NULL THEN {-1} ELSE {3})

C7_Witness ==
  /\ pc = "exit"
  /\ exitCode = {3}
  /\ profiles = <<"a", "v", "p", "f", ",", "S", "A", "V", "P", "F", "1">>
  /\ mask = 12
  /\ factory.profiles = {}

\* C8, as claimed: a profile spec with a token position (the start, or right
\* after a delimiter) at which no token begins is never applied to the
\* factory, and the run that reaches the profile loop ends with exit code 3.
C8_NoTokenAtPositionFails ==
  (/\ profiles # NULL
   /\ \E k \in 1..Len(Runs(profiles)) : ~StartsWithToken(Runs(profiles)[k])) =>
    /\ factory.profiles = {}
    /\ pc # "setProfiles" /\ ~ProfilesDone
    /\ pc = "exit" => exitCode = (IF argv.pipeline = NULL THEN {-1} ELSE {3})

\* C8, amended: a profile spec with a token position before the end of the
\* string at which no token begins is never applied to the factory, and the
\* run that reaches the profile loop ends with exit code 3.  (At the end of
\* the string, in the empty spec and after a last delimiter, the loop ends
\* and the mask gathered so far is applied.)
C8_NoTokenBeforeEndFails ==
  (/\ profiles # NULL
   /\ \E k \in 1..Len(Runs(profiles)) :
        /\ ~StartsWithToken(Runs(profiles)[k])
        /\ ~(k = Len(Runs(profiles)) /\ Runs(profiles)[k] = <<>>)) =>
    /\ factory.profiles = {}
    /\ pc # "setProfiles" /\ ~ProfilesDone
    /\ pc = "exit" => exitCode = (IF argv.pipeline = NULL THEN {-1} ELSE {3})

C8_Witness ==
  /\ pc = "exit"
  /\ exitCode = {3}
  /\ profiles = <<"A", "V", "P", "+", "+", "A", "V", "P">>
  /\ mask = 1
  /\ factory.profiles = {}

\* C9: in Running, with a retransmission time given the factory has both the
\* time and the do-retransmission flag set, and without one it has neither.
C9_RetransmissionTimeEnablesRetention ==
  pc = "running" =>
    IF retransmitTime # NULL
    THEN factory.retransmission_time # {} /\ factory.do_retransmission = {TRUE}
    ELSE factory.retransmission_time = {} /\ factory.do_retransmission = {}

\* C10, as claimed: past the RTCP step a build with RTCP control has set
\* enable-rtcp to the negation of --disable-rtcp, and in no build is
\* --disable-rtcp the reason of an error exit.
C10_DisableRtcpNeverAnError ==
  /\ (env.rtcpControl /\ RtcpDone) => factory.enable_rtcp = {~argv.disableRtcp}
  /\ (/\ argv.disableRtcp
      /\ ~argv.unknown
      /\ argv.pipeline # NULL) => ~(pc = "exit" /\ exitCode = {-1})

\* C10, amended: past the RTCP step a build with RTCP control
\* (GST_VERSION_MINOR >= 20) has set enable-rtcp to the negation of
\* --disable-rtcp; a build without it never sets enable-rtcp and has no such
\* option, so that a run given --disable-rtcp ends in the option parse with
\* exit code -1, before anything is created.
C10_DisableRtcpWhereRegistered ==
  /\ (env.rtcpControl /\ RtcpDone) => factory.enable_rtcp = {~argv.disableRtcp}
  /\ (env.rtcpControl /\ ~RtcpDone) => factory.enable_rtcp = {}
  /\ ~env.rtcpControl =>
       /\ factory.enable_rtcp = {}
       /\ argv.disableRtcp =>
            /\ pc \in {"start", "exit"}
            /\ pc = "exit" => exitCode = {-1}
            /\ created = {}

C10_Witness ==
  /\ ~env.rtcpControl
  /\ argv.disableRtcp
  /\ ~argv.unknown
  /\ argv.pipeline # NULL
  /\ pc = "exit"
  /\ exitCode = {-1}

\* C11: once main is in the main loop, timeout is dispatched again and again
\* (under a loop that dispatches a due source, while time passes): it keeps
\* its source at every dispatch and no step removes the source; and no
\* cleanup has run in a state that is not in the main loop, so none in a run
\* that left main with an exit code.
C11_ReaperRunsForever ==
  /\ <>[](pc # "running") \/ []<><<timeout>>_vars
  /\ [][timeoutAdded => timeoutAdded']_vars
  /\ [](cleanups > 0 => pc = "running" /\ attached /\ timeoutAdded /\ exitCode = {})

C11_Witness ==
  /\ pc = "running"
  /\ cleanups > 1
  /\ timeoutAdded
  /\ due

\* C12: whatever sessions were opened and torn down and however many
\* intervals passed, a dispatch of timeout (the step that takes the source from
\* due to not due) removes from the pool exactly the sessions whose expiry
\* time has elapsed: every session not yet expired stays, no expired session
\* is left, no session is added, and the removed ones are the expired ones.
C12_ReaperRemovesExactlyExpired ==
  [][(due /\ ~due') =>
       /\ \A s \in pool : s.left > 0 => s \in pool'
       /\ \A s \in pool' : s.left > 0 /\ s \in pool
       /\ reaped' = reaped \cup {s.id : s \in {x \in pool : x.left = 0}}]_vars

C12_Witness ==
  /\ pc = "running"
  /\ cleanups > 0
  /\ reaped # {}
  /\ \E s \in pool : s.left > 0 /\ s.id \notin reaped

\* a non-empty string whose last character is a delimiter
EndsWithDelimiter(s) == s # <<>> /\ s[Len(s)] \notin AlnumChars
WithoutLast(s) == SubSeq(s, 1, Len(s) - 1)

\* C13, as claimed: a profile spec whose last character is a delimiter is
\* never applied to the factory, and the run that reaches the profile loop
\* ends with exit code 3.
C13_TrailingDelimiterFails ==
  (profiles # NULL /\ EndsWithDelimiter(profiles)) =>
    /\ factory.profiles = {}
    /\ pc # "setProfiles" /\ ~ProfilesDone
    /\ pc = "exit" => exitCode = (IF argv.pipeline = NULL THEN {-1} ELSE {3})

\* C13, amended: the loop ends successfully only with the cursor at the end
\* of the string, reached right after a token, right after the one delimiter
\* that follows a token, or at once in the empty spec.  A spec whose last
\* character is a delimiter yields the mask of the tokens before it when
\* what precedes that delimiter is a token list, and exit code 3 otherwise.
C13_TrailingDelimiterAfterTokenIsDropped ==
  /\ (profiles # NULL /\ (pc = "setProfiles" \/ ProfilesDone)) =>
       /\ cursor = Len(profiles)
       /\ \/ profiles = <<>>
          \/ TokenList(profiles)
          \/ EndsWithDelimiter(profiles) /\ TokenList(WithoutLast(profiles))
  /\ (profiles # NULL /\ EndsWithDelimiter(profiles)) =>
       IF TokenList(WithoutLast(profiles))
       THEN /\ exitCode # {3}
            /\ pc = "setProfiles" => mask = OrOfFlags(WithoutLast(profiles))
            /\ ProfilesDone => factory.profiles = {OrOfFlags(WithoutLast(profiles))}
       ELSE /\ factory.profiles = {}
            /\ pc # "setProfiles" /\ ~ProfilesDone
            /\ pc = "exit" => exitCode = (IF argv.pipeline = NULL THEN {-1} ELSE {3})

C13_Witness ==
  /\ pc = "running"
  /\ profiles = <<"A", "V", "P", "+", "S", "A", "V", "P", "+">>
  /\ cursor = 9
  /\ factory.profiles = {3}

\* C14: the profile mask of the factory is never the empty mask: it is unset
\* or holds at least one profile flag, and with the empty string as the
\* profile spec it stays unset, as without the option.
C14_MaskUnsetOrNonEmpty ==
  /\ factory.profiles # {0}
  /\ profiles = <<>> => factory.profiles = {}

\* C15: the checks come in one order (options, launch line, profile spec,
\* retransmission time, attach) and the first that fails ends the run with
\* its code: with an invalid profile spec and an invalid retransmission time
\* the code is 3, never 4; and what comes after a failing check is never
\* done: after exit code -1 nothing is created, after 3 nothing is set on
\* the factory, after 3 or 4 no launch line or shared flag is set and nothing
\* is mounted, and after any failure nothing is attached and no timeout is
\* added; an ended run takes no further step.
C15_FailFastOrder ==
  /\ (profiles # NULL /\ ~AcceptedProfiles(profiles)) =>
       /\ exitCode \notin {{4}, {6}}
       /\ ~ProfilesDone /\ factory = NewFactory
       /\ pc = "exit" /\ argv.pipeline # NULL => exitCode = {3}
  /\ (retransmitTime # NULL /\ ~IntegerLiteral(retransmitTime)) =>
       /\ exitCode # {6}
       /\ ~RetransmissionDone
       /\ factory.retransmission_time = {} /\ factory.enable_rtcp = {}
       /\ factory.launch = {} /\ factory.shared = {}
  /\ exitCode = {-1} => created = {} /\ service = {} /\ factory = NewFactory
  /\ exitCode = {3} => factory = NewFactory
  /\ exitCode = {4} => /\ factory.retransmission_time = {} /\ factory.enable_rtcp = {}
                       /\ factory.launch = {} /\ factory.shared = {}
  /\ exitCode \in {{-1}, {3}, {4}} => mountTable = {}
  /\ exitCode # {} => ~attached /\ ~timeoutAdded /\ cleanups = 0
  /\ pc = "exit" => ~ENABLED Next

C15_Witness ==
  /\ pc = "exit"
  /\ exitCode = {3}
  /\ argv.pipeline # NULL
  /\ profiles = <<"X", "Y", "Z">>
  /\ retransmitTime = <<"2", "0", "0", "m", "s">>
  /\ created # {}

\* the readiness messages written so far
ReadyMessages ==
  {i \in DOMAIN stdout : stdout[i].fmt = "Stream ready at rtsp://127.0.0.1:%s%s\n"}

\* C16: the readiness message is written at most once in a run, only with
\* the factory in the mount table and the server attached, with the server's
\* port and the mounted path as its two arguments, and not at all in a run
\* that ends with an exit code.
C16_ReadyOnceAfterMountAndAttach ==
  /\ Cardinality(ReadyMessages) <= 1
  /\ \A i \in ReadyMessages :
       /\ pc = "running" /\ attached /\ exitCode = {}
       /\ \E e \in mountTable : e.path = stdout[i].args[2] /\ e.factory = factory
       /\ stdout[i].args[1] \in service
  /\ exitCode # {} => ReadyMessages = {}

C16_Witness ==
  /\ pc = "running"
  /\ cleanups > 1
  /\ Cardinality(ReadyMessages) = 1
  /\ ReadyMessages = {Len(stdout)}

\* C17: for every retransmission time main accepts, the time stored on the
\* factory is the product of the converted value and GST_MSECOND as a
\* number: the product fits 64 bits and nothing is lost.
C17_StoredTimeIsTheProduct ==
  (retransmitTime # NULL /\ RetransmissionDone) =>
    /\ Fits64(MulAdd(strtoull(retransmitTime).value, GST_MSECOND, 0))
    /\ \E v \in factory.retransmission_time :
         Trim(v) = Trim(MulAdd(strtoull(retransmitTime).value, GST_MSECOND, 0))

\* C18: whatever the profile spec, the cursor of the profile loop never
\* passes the terminator of the string, and parseProfile and the loop read
\* no character past the terminator.
C18_NoReadPastTerminator ==
  /\ profiles # NULL => cursor <= Len(profiles)
  /\ \A i \in reads : profiles # NULL /\ 0 <= i /\ i <= Len(profiles)

\* "SAV": the S is taken, the comparison with "AVP" stops at the terminator,
\* which is the last offset read
C18_Witness ==
  /\ pc = "exit"
  /\ exitCode = {3}
  /\ profiles = <<"S", "A", "V">>
  /\ reads = {0, 1, 2, 3}
  /\ cursor = 1

\* C19: the profile loop ends for every profile spec: a pass of its body
\* that does not end the parse (by leaving the loop or by exit code 3) moves
\* the cursor forward by at least one character, the cursor never passes
\* the end of the string, and the body has never run more often than the
\* string has characters.
C19_LoopAdvancesAndEnds ==
  /\ [][(pc = "profileLoop" /\ pc' = "profileLoop") =>
          /\ passes' = passes + 1
          /\ cursor' >= cursor + 1
          /\ cursor' <= Len(profiles)]_vars
  /\ [](profiles # NULL => passes <= Len(profiles))
  /\ [](pc = "profileLoop" => passes <= cursor)
  /\ [](profiles = NULL => passes = 0)

C19_Witness ==
  /\ pc = "running"
  /\ Len(profiles) = 19
  /\ passes = 4
  /\ cursor = 19

====
